---------------------------- MODULE Spec2Model ----------------------------
(***************************************************************************)
(* A model of CycloidCalculator.py: the bearing catalog (load_bearings,    *)
(* find_bearing_by_ID), the two change-triggered derivations               *)
(* (on_shaft_diameter_change, on_roller_base_diameter_change) and the      *)
(* full calculation (calculate_cycloidal_params), over the Tk entries and  *)
(* StringVars the handlers read and write.                                 *)
(*                                                                         *)
(* Texts (the contents of entries, StringVars and CSV cells) are           *)
(* sequences of one-character strings, so that float(), int(), str() and   *)
(* the "%.3f" formatting are computed character by character.              *)
(*                                                                         *)
(* A Python float is a record [k, v]:                                      *)
(*    k = "fin": the number v / Scale   (fixed point, v an integer)        *)
(*    k = "inf": plus (v = 1) or minus (v = -1) infinity                   *)
(*    k = "nan": not-a-number                                              *)
(* The unit 1/Scale is half of 1e-7, so that every decimal of up to seven  *)
(* fraction digits and its half (the division by 2.0 of line 106) are      *)
(* exact.  Decimal texts with more fraction digits, and magnitudes of 100  *)
(* and above, are outside the modelled domain.                             *)
(***************************************************************************)
EXTENDS Integers, Sequences, FiniteSets, TLC

\* ------------------------------------------------------------------------
\* Numbers
\* ------------------------------------------------------------------------

RECURSIVE Pow10(_)
Pow10(n) == IF n = 0 THEN 1 ELSE 10 * Pow10(n - 1)

\* Fraction digits of the fixed point, and units per 1.0 (twice 10^FracDigits).
FracDigits == 3 + 4
Scale == 2 * Pow10(FracDigits)

Fin(v) == [k |-> "fin", v |-> v]
Inf(s) == [k |-> "inf", v |-> s]
NaN == [k |-> "nan", v |-> 0]
\* The outcome of a conversion that raises ValueError.
ValueError == [k |-> "ValueError", v |-> 0]

IsFloat(x) == x.k \in {"fin", "inf", "nan"}
IsFinite(x) == x.k = "fin"

\* IEEE-754 negation, addition, subtraction, absolute value, halving and "<".
FNeg(a) == [k |-> a.k, v |-> 0 - a.v]

FAdd(a, b) ==
    IF a.k = "nan" \/ b.k = "nan" THEN NaN
    ELSE IF a.k = "inf" /\ b.k = "inf" THEN (IF a.v = b.v THEN a ELSE NaN)
    ELSE IF a.k = "inf" THEN a
    ELSE IF b.k = "inf" THEN b
    ELSE Fin(a.v + b.v)

FSub(a, b) == FAdd(a, FNeg(b))

FAbs(a) == IF a.v < 0 THEN FNeg(a) ELSE a

FHalf(a) == IF a.k = "fin" THEN Fin(a.v \div 2) ELSE a

FLess(a, b) ==
    IF a.k = "nan" \/ b.k = "nan" THEN FALSE
    ELSE IF a.k = "inf" THEN a.v < 0 /\ ~(b.k = "inf" /\ b.v < 0)
    ELSE IF b.k = "inf" THEN b.v > 0
    ELSE a.v < b.v

\* ------------------------------------------------------------------------
\* Texts
\* ------------------------------------------------------------------------

Digits == <<"0", "1", "2", "3", "4", "5", "6", "7", "8", "9">>

IsDigit(c) == \E i \in 1..10 : Digits[i] = c

DigitVal(c) == (CHOOSE i \in 1..10 : Digits[i] = c) - 1

\* str.lower() on the letters that float() reads.
Lower(c) ==
    CASE c = "I" -> "i" [] c = "N" -> "n" [] c = "F" -> "f" [] c = "A" -> "a"
      [] c = "T" -> "t" [] c = "Y" -> "y" [] c = "E" -> "e" [] OTHER -> c

LowerText(t) == [i \in 1..Len(t) |-> Lower(t[i])]

\* str.strip() of blanks.
RECURSIVE StripLeft(_)
StripLeft(t) == IF t # <<>> /\ Head(t) = " " THEN StripLeft(Tail(t)) ELSE t

RECURSIVE StripRight(_)
StripRight(t) ==
    IF t # <<>> /\ t[Len(t)] = " " THEN StripRight(SubSeq(t, 1, Len(t) - 1)) ELSE t

Strip(t) == StripRight(StripLeft(t))

AllDigits(t) == \A i \in 1..Len(t) : IsDigit(t[i])

\* The number a digit string denotes.
RECURSIVE DigitsVal(_)
DigitsVal(t) ==
    IF t = <<>> THEN 0 ELSE 10 * DigitsVal(SubSeq(t, 1, Len(t) - 1)) + DigitVal(t[Len(t)])

\* The decimal digits of n >= 0.
RECURSIVE NatText(_)
NatText(n) == IF n < 10 THEN <<Digits[n + 1]>> ELSE NatText(n \div 10) \o <<Digits[(n % 10) + 1]>>

\* The digits of n, left-padded with zeros to width w.
RECURSIVE Pad(_, _)
Pad(t, w) == IF Len(t) >= w THEN t ELSE Pad(<<"0">> \o t, w)

RECURSIVE StripZerosRight(_)
StripZerosRight(t) ==
    IF t # <<>> /\ t[Len(t)] = "0" THEN StripZerosRight(SubSeq(t, 1, Len(t) - 1)) ELSE t

\* The index of the first occurrence of c in t, or 0.
IndexOf(t, c) ==
    IF \E i \in 1..Len(t) : t[i] = c THEN CHOOSE i \in 1..Len(t) : t[i] = c /\ \A j \in 1..(i - 1) : t[j] # c
    ELSE 0

\* ------------------------------------------------------------------------
\* Conversions: float(text), int(text), str(float), format(float, ".3f")
\* ------------------------------------------------------------------------

HasSign(s) == s # <<>> /\ Head(s) \in {"+", "-"}
SignOf(s) == IF s # <<>> /\ Head(s) = "-" THEN -1 ELSE 1
Unsigned(s) == IF HasSign(s) THEN Tail(s) ELSE s

\* m * 10^e in units of 1/Scale, for the digit string m read as an integer
\* with f of its digits after the point.
Scaled(m, f, e) ==
    LET shift == FracDigits - f + e
    IN  IF shift >= 0 THEN 2 * DigitsVal(m) * Pow10(shift)
        ELSE (2 * DigitsVal(m)) \div Pow10(0 - shift)

\* float(t): blanks stripped, an optional sign, then inf / infinity / nan in
\* any case, or digits with an optional point and an optional exponent.
\* Anything else raises ValueError.
ParseFloat(t) ==
    LET s == LowerText(Strip(t))
        sg == SignOf(s)
        b == Unsigned(s)
        ePos == IndexOf(b, "e")
        mant == IF ePos = 0 THEN b ELSE SubSeq(b, 1, ePos - 1)
        expo == IF ePos = 0 THEN <<>> ELSE SubSeq(b, ePos + 1, Len(b))
        expDigits == Unsigned(expo)
        dot == IndexOf(mant, ".")
        ip == IF dot = 0 THEN mant ELSE SubSeq(mant, 1, dot - 1)
        fp == IF dot = 0 THEN <<>> ELSE SubSeq(mant, dot + 1, Len(mant))
        e == IF ePos = 0 THEN 0 ELSE SignOf(expo) * DigitsVal(expDigits)
    IN  IF b = <<"i", "n", "f">> \/ b = <<"i", "n", "f", "i", "n", "i", "t", "y">> THEN Inf(sg)
        ELSE IF b = <<"n", "a", "n">> THEN NaN
        ELSE IF /\ AllDigits(ip) /\ AllDigits(fp) /\ Len(ip) + Len(fp) >= 1
                /\ (ePos # 0 => expDigits # <<>> /\ AllDigits(expDigits))
             THEN Fin(sg * Scaled(ip \o fp, Len(fp), e))
        ELSE ValueError

\* int(t): blanks stripped, an optional sign, then digits only.
ParseInt(t) ==
    LET s == Strip(t)
        b == Unsigned(s)
    IN  IF b # <<>> /\ AllDigits(b) THEN [k |-> "int", v |-> SignOf(s) * DigitsVal(b)]
        ELSE ValueError

SignText(v) == IF v < 0 THEN <<"-">> ELSE <<>>

\* str(x) of a float: the shortest repr.  Positional from 1e-4 upwards
\* (always with a fraction part), scientific below, "inf" and "nan".
PyStr(x) ==
    LET a == IF x.v < 0 THEN 0 - x.v ELSE x.v
        frac == StripZerosRight(Pad(NatText((a % Scale) * 5), FracDigits + 1))
        sci == NatText(a * 5)
        m == StripZerosRight(sci)
    IN  IF x.k = "nan" THEN <<"n", "a", "n">>
        ELSE IF x.k = "inf" THEN SignText(x.v) \o <<"i", "n", "f">>
        ELSE IF a = 0 THEN <<"0", ".", "0">>
        ELSE IF a >= Scale \div Pow10(4)
             THEN SignText(x.v) \o NatText(a \div Scale) \o <<".">>
                  \o (IF frac = <<>> THEN <<"0">> ELSE frac)
        ELSE SignText(x.v) \o <<Head(m)>>
             \o (IF Len(m) > 1 THEN <<".">> \o Tail(m) ELSE <<>>)
             \o <<"e", "-">> \o Pad(NatText(FracDigits + 2 - Len(sci)), 2)

\* f"{x:.3f}": fixed point with three decimals, rounded half to even on the
\* decimal value; "inf" and "nan" are printed as such.
Fmt3(x) ==
    LET a == IF x.v < 0 THEN 0 - x.v ELSE x.v
        upm == Scale \div 1000
        q == a \div upm
        r == a % upm
        n == IF 2 * r > upm \/ (2 * r = upm /\ q % 2 = 1) THEN q + 1 ELSE q
    IN  IF x.k = "nan" THEN <<"n", "a", "n">>
        ELSE IF x.k = "inf" THEN SignText(x.v) \o <<"i", "n", "f">>
        ELSE SignText(x.v) \o NatText(n \div 1000) \o <<".">> \o Pad(NatText(n % 1000), 3)

\* ------------------------------------------------------------------------
\* Sample texts: what the user types and what bearing.csv holds
\* ------------------------------------------------------------------------

Empty == <<>>
Txt_abc == <<"a", "b", "c">>
Txt_10_0 == <<"1", "0", ".", "0">>
Txt_10_0000005 == <<"1", "0", ".", "0", "0", "0", "0", "0", "0", "5">>
Txt_11 == <<"1", "1">>
Txt_12 == <<"1", "2">>
Txt_22_0 == <<"2", "2", ".", "0">>
Txt_26 == <<"2", "6">>
Txt_28 == <<"2", "8">>
Txt_6_0 == <<"6", ".", "0">>
Txt_7 == <<"7">>
Txt_8 == <<"8">>
Txt_8_0 == <<"8", ".", "0">>
Txt_8_5 == <<"8", ".", "5">>
Txt_5 == <<"5">>
Txt_0_05 == <<"0", ".", "0", "5">>
Txt_0_0504 == <<"0", ".", "0", "5", "0", "4">>
Txt_inf == <<"i", "n", "f">>
Txt_nan == <<"n", "a", "n">>
Txt_B1 == <<"B", "1">>
Txt_B2 == <<"B", "2">>
Txt_B3 == <<"B", "3">>
Txt_B4 == <<"B", "4">>

\* The texts above and the texts str() makes of the sample rows' numbers.
KnownTexts ==
    {Empty, Txt_abc, Txt_10_0, Txt_10_0000005, Txt_11, Txt_12, Txt_22_0, Txt_26,
     Txt_28, Txt_6_0, Txt_7, Txt_8, Txt_8_0, Txt_8_5, Txt_5, Txt_0_05, Txt_0_0504,
     Txt_inf, Txt_nan, Txt_26 \o <<".", "0">>, Txt_28 \o <<".", "0">>,
     Txt_7 \o <<".", "0">>, Txt_8_5 \o <<"m", "m">>}

\* ParseFloat and ParseInt of the known texts, evaluated once.
FloatTable == [t \in KnownTexts |-> ParseFloat(t)]
IntTable == [t \in KnownTexts |-> ParseInt(t)]

\* float(t) and int(t) as the program calls them: the tables are only a
\* cache, float(t) = ParseFloat(t) and int(t) = ParseInt(t) for every text.
float(t) == IF t \in KnownTexts THEN FloatTable[t] ELSE ParseFloat(t)
int(t) == IF t \in KnownTexts THEN IntTable[t] ELSE ParseInt(t)

\* One data row of bearing.csv, as csv.DictReader yields it.
Row(pn, id, od, th) == [PartNumber |-> pn, ID |-> id, OD |-> od, Thickness |-> th]

RowB1 == Row(Txt_B1, Txt_10_0, Txt_22_0, Txt_6_0)
RowB2 == Row(Txt_B2, Txt_12, Txt_28, Txt_8)
\* A second row whose ID is within 1e-6 of RowB1's.
RowB3 == Row(Txt_B3, Txt_10_0000005, Txt_26, Txt_7)
RowBadID == Row(Txt_B4, Txt_abc, Txt_26, Txt_7)
RowBadOD == Row(Txt_B4, Txt_11, Empty, Txt_7)
RowBadThickness == Row(Txt_B4, Txt_11, Txt_26, Txt_8_5 \o <<"m", "m">>)

\* bearing.csv with the data rows `rows`, and no bearing.csv at all
\* (os.path.isfile(csv_filename) is false).
File(rows) == [exists |-> TRUE, rows |-> rows]
NoFile == [exists |-> FALSE, rows |-> <<>>]

\* ------------------------------------------------------------------------
\* The catalog: load_bearings and find_bearing_by_ID
\* ------------------------------------------------------------------------

\* Lines 20-25: the dictionary appended for one row, or ValueError.
Bearing(row) ==
    LET id == float(row.ID)
        od == float(row.OD)
        th == float(row.Thickness)
    IN  IF IsFloat(id) /\ IsFloat(od) /\ IsFloat(th)
        THEN [PartNumber |-> row.PartNumber, ID |-> id, OD |-> od, Thickness |-> th]
        ELSE ValueError

\* ReadRows with a bad row ending the loop instead of the call: the rows
\* read before it are returned.
RECURSIVE ReadRows_keeping_rows_read(_, _)
ReadRows_keeping_rows_read(rows, bearings) ==
    IF rows = <<>> THEN [raised |-> FALSE, value |-> bearings]
    ELSE IF Bearing(Head(rows)) = ValueError THEN [raised |-> FALSE, value |-> bearings]
    ELSE ReadRows_keeping_rows_read(Tail(rows), Append(bearings, Bearing(Head(rows))))

\* Lines 17-26: the loop over the rows.  A row that raises ends the call:
\* the rows appended so far are lost with the local list.
RECURSIVE ReadRows(_, _)
ReadRows(rows, bearings) ==
    IF rows = <<>> THEN [raised |-> FALSE, value |-> bearings]
    ELSE IF Bearing(Head(rows)) = ValueError THEN [raised |-> TRUE, value |-> <<>>]
    ELSE ReadRows(Tail(rows), Append(bearings, Bearing(Head(rows))))

\* load_bearings without the os.path.isfile test of line 12: open() raises.
load_bearings_missing_raises(file) ==
    IF ~file.exists THEN [raised |-> TRUE, value |-> <<>>]
    ELSE ReadRows(file.rows, <<>>)

\* Lines 6-26.
load_bearings(file) ==
    IF ~file.exists THEN [raised |-> FALSE, value |-> <<>>]
    ELSE ReadRows(file.rows, <<>>)

\* Python's None.
None == [none |-> TRUE]

\* 1e-6 (line 34), in units of 1/Scale.
Tolerance == Scale \div Pow10(6)

\* Line 34: abs(bearing['ID'] - inner_diameter) < 1e-6
Matches(bearing, d) == FLess(FAbs(FSub(bearing.ID, d)), Fin(Tolerance))

\* Lines 28-36: the first bearing in list order that matches, else None.
RECURSIVE find_bearing_by_ID(_, _)
find_bearing_by_ID(bearings, d) ==
    IF bearings = <<>> THEN None
    ELSE IF Matches(Head(bearings), d) THEN Head(bearings)
    ELSE find_bearing_by_ID(Tail(bearings), d)

\* ------------------------------------------------------------------------
\* State
\* ------------------------------------------------------------------------

VARIABLES
    phase,          \* "boot" before line 119, "running" in root.mainloop(),
                    \* "crashed" after an exception left the module body
    csv_file,       \* bearing.csv: NoFile, or File(its data rows in file order)
    bearings_list,  \* line 119
    \* The Entry widgets (the user's raw text).
    entry_shaft_diameter, entry_num_drive_rollers, entry_drive_roller_diameter,
    entry_drive_roller_base_thickness, entry_roller_base_diameter,
    entry_ring_pin_diameter, entry_cycloidal_pin_diameter,
    entry_cycloidal_pin_height, entry_tolerance, entry_cycloidal_disc_thickness,
    \* The StringVars the handlers write (lines 128-140).
    bearing_thickness_var, bearing_od_var, part_number_shaft_var,
    roller_base_bearing_thickness_var, roller_base_bearing_od_var,
    part_number_roller_base_var, cycloidal_disc_id_var,
    hole_drive_roller_var, hole_cycloidal_pin_var, eccentricity_var,
    last,           \* the kind of the last event (history): "none", "startup",
                    \* "edit" (the user typed into an entry), "calc" (the button)
    \* One direct call of find_bearing_by_ID: its arguments and its result.
    bearings_data, inner_diameter, found_bearing

plain_entries ==
    <<entry_num_drive_rollers, entry_drive_roller_diameter,
      entry_drive_roller_base_thickness, entry_ring_pin_diameter,
      entry_cycloidal_pin_diameter, entry_cycloidal_pin_height, entry_tolerance,
      entry_cycloidal_disc_thickness>>

entries == <<entry_shaft_diameter, entry_roller_base_diameter, plain_entries>>

shaft_outputs ==
    <<bearing_thickness_var, bearing_od_var, part_number_shaft_var, cycloidal_disc_id_var>>

roller_outputs ==
    <<roller_base_bearing_thickness_var, roller_base_bearing_od_var,
      part_number_roller_base_var>>

calc_outputs == <<hole_drive_roller_var, hole_cycloidal_pin_var, eccentricity_var>>

outputs == <<shaft_outputs, roller_outputs, calc_outputs>>

catalog == <<phase, csv_file, bearings_list>>

find_call == <<bearings_data, inner_diameter, found_bearing>>

vars == <<catalog, entries, outputs, last, find_call>>

\* ------------------------------------------------------------------------
\* Startup (lines 114-261)
\* ------------------------------------------------------------------------

\* The module body up to root.mainloop().  load_bearings is called at line
\* 119 outside any try: a ValueError raised in it ends the process before
\* bearings_list is bound and before the main loop starts.
Startup ==
    /\ phase = "boot"
    /\ LET r == load_bearings(csv_file)
       IN  IF r.raised
           THEN phase' = "crashed" /\ UNCHANGED bearings_list
           ELSE phase' = "running" /\ bearings_list' = r.value
    /\ last' = "startup"
    /\ UNCHANGED <<csv_file, entries, outputs, find_call>>

\* ------------------------------------------------------------------------
\* The change-triggered derivations
\* ------------------------------------------------------------------------

\* The result of the try block of lines 43-48 (and 61-66): float() of the
\* entry's text, then the lookup.  None when float() raised.
Lookup(text) ==
    IF float(text) = ValueError THEN None
    ELSE find_bearing_by_ID(bearings_list, float(text))

\* ShaftDerivation with an else branch that clears the fields on a miss.
ShaftDerivation_clearing(found, current) ==
    IF found # None
    THEN [bearing_thickness_var |-> PyStr(found.Thickness),
          bearing_od_var |-> PyStr(found.OD),
          part_number_shaft_var |-> found.PartNumber,
          cycloidal_disc_id_var |-> PyStr(found.OD)]
    ELSE [bearing_thickness_var |-> Empty, bearing_od_var |-> Empty,
          part_number_shaft_var |-> Empty, cycloidal_disc_id_var |-> Empty]

\* ShaftDerivation with the disc's inner diameter taken from the bearing's ID.
ShaftDerivation_disc_from_id(found, current) ==
    IF found # None
    THEN [bearing_thickness_var |-> PyStr(found.Thickness),
          bearing_od_var |-> PyStr(found.OD),
          part_number_shaft_var |-> found.PartNumber,
          cycloidal_disc_id_var |-> PyStr(found.ID)]
    ELSE current

\* Lines 49-54: what the four StringVars of the shaft bearing hold after
\* "if found_bearing:", given what they hold now.
ShaftDerivation(found, current) ==
    IF found # None
    THEN [bearing_thickness_var |-> PyStr(found.Thickness),
          bearing_od_var |-> PyStr(found.OD),
          part_number_shaft_var |-> found.PartNumber,
          cycloidal_disc_id_var |-> PyStr(found.OD)]
    ELSE current

\* Lines 38-54, with the write of shaft_diameter_var that triggers it
\* (line 123): the user's edit leaves `text` in the entry.
on_shaft_diameter_change(text) ==
    /\ phase = "running"
    /\ entry_shaft_diameter' = text
    /\ LET d == ShaftDerivation(Lookup(text),
                    [bearing_thickness_var |-> bearing_thickness_var,
                     bearing_od_var |-> bearing_od_var,
                     part_number_shaft_var |-> part_number_shaft_var,
                     cycloidal_disc_id_var |-> cycloidal_disc_id_var])
       IN  /\ bearing_thickness_var' = d.bearing_thickness_var
           /\ bearing_od_var' = d.bearing_od_var
           /\ part_number_shaft_var' = d.part_number_shaft_var
           /\ cycloidal_disc_id_var' = d.cycloidal_disc_id_var
    /\ last' = "edit"
    /\ UNCHANGED <<catalog, entry_roller_base_diameter, plain_entries,
                   roller_outputs, calc_outputs, find_call>>

\* Lines 67-70.
RollerDerivation(found, current) ==
    IF found # None
    THEN [roller_base_bearing_thickness_var |-> PyStr(found.Thickness),
          roller_base_bearing_od_var |-> PyStr(found.OD),
          part_number_roller_base_var |-> found.PartNumber]
    ELSE current

\* on_roller_base_diameter_change copied from the shaft handler with its
\* last line kept: a match also writes cycloidal_disc_id_var.
on_roller_base_diameter_change_writes_disc(text) ==
    /\ phase = "running"
    /\ entry_roller_base_diameter' = text
    /\ LET found == Lookup(text)
           d == RollerDerivation(found,
                    [roller_base_bearing_thickness_var |-> roller_base_bearing_thickness_var,
                     roller_base_bearing_od_var |-> roller_base_bearing_od_var,
                     part_number_roller_base_var |-> part_number_roller_base_var])
       IN  /\ roller_base_bearing_thickness_var' = d.roller_base_bearing_thickness_var
           /\ roller_base_bearing_od_var' = d.roller_base_bearing_od_var
           /\ part_number_roller_base_var' = d.part_number_roller_base_var
           /\ cycloidal_disc_id_var' = IF found # None THEN PyStr(found.OD)
                                       ELSE cycloidal_disc_id_var
    /\ last' = "edit"
    /\ UNCHANGED <<catalog, entry_shaft_diameter, plain_entries,
                   bearing_thickness_var, bearing_od_var, part_number_shaft_var,
                   calc_outputs, find_call>>

\* Lines 56-70, with the write of roller_base_diameter_var (line 126).
on_roller_base_diameter_change(text) ==
    /\ phase = "running"
    /\ entry_roller_base_diameter' = text
    /\ LET d == RollerDerivation(Lookup(text),
                    [roller_base_bearing_thickness_var |-> roller_base_bearing_thickness_var,
                     roller_base_bearing_od_var |-> roller_base_bearing_od_var,
                     part_number_roller_base_var |-> part_number_roller_base_var])
       IN  /\ roller_base_bearing_thickness_var' = d.roller_base_bearing_thickness_var
           /\ roller_base_bearing_od_var' = d.roller_base_bearing_od_var
           /\ part_number_roller_base_var' = d.part_number_roller_base_var
    /\ last' = "edit"
    /\ UNCHANGED <<catalog, entry_shaft_diameter, plain_entries,
                   shaft_outputs, calc_outputs, find_call>>

\* ------------------------------------------------------------------------
\* The full calculation (lines 72-107)
\* ------------------------------------------------------------------------

\* The try block without line 86 (cycloidal_pin_height, which no formula uses).
Conversions_without_pin_height ==
    <<float(entry_shaft_diameter),
      int(entry_num_drive_rollers),
      float(entry_drive_roller_diameter),
      float(entry_drive_roller_base_thickness),
      float(entry_roller_base_diameter),
      float(entry_ring_pin_diameter),
      float(entry_cycloidal_pin_diameter),
      float(entry_tolerance),
      float(cycloidal_disc_id_var),
      float(entry_cycloidal_disc_thickness)>>

\* The try block without line 88 (cycloidal_disc_id, which no formula uses).
Conversions_without_disc_id ==
    <<float(entry_shaft_diameter),
      int(entry_num_drive_rollers),
      float(entry_drive_roller_diameter),
      float(entry_drive_roller_base_thickness),
      float(entry_roller_base_diameter),
      float(entry_ring_pin_diameter),
      float(entry_cycloidal_pin_diameter),
      float(entry_cycloidal_pin_height),
      float(entry_tolerance),
      float(entry_cycloidal_disc_thickness)>>

\* Lines 79-89: the eleven conversions of the try block, in order.
Conversions ==
    <<float(entry_shaft_diameter),
      int(entry_num_drive_rollers),
      float(entry_drive_roller_diameter),
      float(entry_drive_roller_base_thickness),
      float(entry_roller_base_diameter),
      float(entry_ring_pin_diameter),
      float(entry_cycloidal_pin_diameter),
      float(entry_cycloidal_pin_height),
      float(entry_tolerance),
      float(cycloidal_disc_id_var),
      float(entry_cycloidal_disc_thickness)>>

\* Line 90: some conversion raised ValueError.
Aborts == \E i \in 1..Len(Conversions) : Conversions[i] = ValueError

\* 0.2 (lines 96, 98), in units of 1/Scale.
Clearance == Scale \div 5

\* Lines 96 and 98: diameter + 0.2 - tolerance_val
HoleDiameter(diam, tolerance_val) == FSub(FAdd(diam, Fin(Clearance)), tolerance_val)

\* Line 106: (ring_pin_diam - cycloidal_pin_diam) / 2.0
Eccentricity(ring_pin_diam, cycloidal_pin_diam) == FHalf(FSub(ring_pin_diam, cycloidal_pin_diam))

\* The Calculate button (line 254).
calculate_cycloidal_params ==
    /\ phase = "running"
    /\ IF Aborts
       THEN UNCHANGED calc_outputs
       ELSE LET drive_roller_diam == float(entry_drive_roller_diameter)
                ring_pin_diam == float(entry_ring_pin_diameter)
                cycloidal_pin_diam == float(entry_cycloidal_pin_diameter)
                tolerance_val == float(entry_tolerance)
            IN  /\ hole_drive_roller_var' = Fmt3(HoleDiameter(drive_roller_diam, tolerance_val))
                /\ hole_cycloidal_pin_var' = Fmt3(HoleDiameter(cycloidal_pin_diam, tolerance_val))
                /\ eccentricity_var' = Fmt3(Eccentricity(ring_pin_diam, cycloidal_pin_diam))
    /\ last' = "calc"
    /\ UNCHANGED <<catalog, entries, shaft_outputs, roller_outputs, find_call>>

\* ------------------------------------------------------------------------
\* The user's edits of the entries no handler is bound to
\* ------------------------------------------------------------------------

\* What the user types: one text float() (or int()) takes and one it does
\* not, per entry; for the two diameters that are looked up, also one that
\* parses and matches no sample row.
NumTexts == {Empty, Txt_8}
ValueTexts == {Empty, Txt_5}
ShaftTexts == {Empty, Txt_10_0, Txt_11, Txt_12}
RollerTexts == {Empty, Txt_10_0, Txt_11}

Type_num_drive_rollers ==
    /\ phase = "running"
    /\ \E t \in NumTexts : entry_num_drive_rollers' = t
    /\ last' = "edit"
    /\ UNCHANGED <<catalog, outputs, find_call, entry_shaft_diameter, entry_roller_base_diameter,
                   entry_drive_roller_diameter, entry_drive_roller_base_thickness,
                   entry_ring_pin_diameter, entry_cycloidal_pin_diameter,
                   entry_cycloidal_pin_height, entry_tolerance, entry_cycloidal_disc_thickness>>

Type_drive_roller_diameter ==
    /\ phase = "running"
    /\ \E t \in {Empty, Txt_6_0} : entry_drive_roller_diameter' = t
    /\ last' = "edit"
    /\ UNCHANGED <<catalog, outputs, find_call, entry_shaft_diameter, entry_roller_base_diameter,
                   entry_num_drive_rollers, entry_drive_roller_base_thickness,
                   entry_ring_pin_diameter, entry_cycloidal_pin_diameter,
                   entry_cycloidal_pin_height, entry_tolerance, entry_cycloidal_disc_thickness>>

Type_drive_roller_base_thickness ==
    /\ phase = "running"
    /\ \E t \in ValueTexts : entry_drive_roller_base_thickness' = t
    /\ last' = "edit"
    /\ UNCHANGED <<catalog, outputs, find_call, entry_shaft_diameter, entry_roller_base_diameter,
                   entry_num_drive_rollers, entry_drive_roller_diameter,
                   entry_ring_pin_diameter, entry_cycloidal_pin_diameter,
                   entry_cycloidal_pin_height, entry_tolerance, entry_cycloidal_disc_thickness>>

Type_ring_pin_diameter ==
    /\ phase = "running"
    /\ \E t \in {Empty, Txt_8_0} : entry_ring_pin_diameter' = t
    /\ last' = "edit"
    /\ UNCHANGED <<catalog, outputs, find_call, entry_shaft_diameter, entry_roller_base_diameter,
                   entry_num_drive_rollers, entry_drive_roller_diameter,
                   entry_drive_roller_base_thickness, entry_cycloidal_pin_diameter,
                   entry_cycloidal_pin_height, entry_tolerance, entry_cycloidal_disc_thickness>>

Type_cycloidal_pin_diameter ==
    /\ phase = "running"
    /\ \E t \in {Empty, Txt_6_0} : entry_cycloidal_pin_diameter' = t
    /\ last' = "edit"
    /\ UNCHANGED <<catalog, outputs, find_call, entry_shaft_diameter, entry_roller_base_diameter,
                   entry_num_drive_rollers, entry_drive_roller_diameter,
                   entry_drive_roller_base_thickness, entry_ring_pin_diameter,
                   entry_cycloidal_pin_height, entry_tolerance, entry_cycloidal_disc_thickness>>

Type_cycloidal_pin_height ==
    /\ phase = "running"
    /\ \E t \in ValueTexts : entry_cycloidal_pin_height' = t
    /\ last' = "edit"
    /\ UNCHANGED <<catalog, outputs, find_call, entry_shaft_diameter, entry_roller_base_diameter,
                   entry_num_drive_rollers, entry_drive_roller_diameter,
                   entry_drive_roller_base_thickness, entry_ring_pin_diameter,
                   entry_cycloidal_pin_diameter, entry_tolerance, entry_cycloidal_disc_thickness>>

Type_tolerance ==
    /\ phase = "running"
    /\ \E t \in {Empty, Txt_0_05} : entry_tolerance' = t
    /\ last' = "edit"
    /\ UNCHANGED <<catalog, outputs, find_call, entry_shaft_diameter, entry_roller_base_diameter,
                   entry_num_drive_rollers, entry_drive_roller_diameter,
                   entry_drive_roller_base_thickness, entry_ring_pin_diameter,
                   entry_cycloidal_pin_diameter, entry_cycloidal_pin_height,
                   entry_cycloidal_disc_thickness>>

Type_cycloidal_disc_thickness ==
    /\ phase = "running"
    /\ \E t \in ValueTexts : entry_cycloidal_disc_thickness' = t
    /\ last' = "edit"
    /\ UNCHANGED <<catalog, outputs, find_call, entry_shaft_diameter, entry_roller_base_diameter,
                   entry_num_drive_rollers, entry_drive_roller_diameter,
                   entry_drive_roller_base_thickness, entry_ring_pin_diameter,
                   entry_cycloidal_pin_diameter, entry_cycloidal_pin_height, entry_tolerance>>

Type_shaft_diameter == \E t \in ShaftTexts : on_shaft_diameter_change(t)

Type_roller_base_diameter == \E t \in RollerTexts : on_roller_base_diameter_change(t)

\* ------------------------------------------------------------------------
\* The program: one start, then one event at a time (root.mainloop())
\* ------------------------------------------------------------------------

SampleFiles == {NoFile, File(<<RowB1, RowB2>>), File(<<RowB1, RowBadID, RowB2>>)}

FindIdle == bearings_data = <<>> /\ inner_diameter = NaN /\ found_bearing = None

BlankForm ==
    /\ entry_shaft_diameter = Empty /\ entry_num_drive_rollers = Empty
    /\ entry_drive_roller_diameter = Empty /\ entry_drive_roller_base_thickness = Empty
    /\ entry_roller_base_diameter = Empty /\ entry_ring_pin_diameter = Empty
    /\ entry_cycloidal_pin_diameter = Empty /\ entry_cycloidal_pin_height = Empty
    /\ entry_tolerance = Empty /\ entry_cycloidal_disc_thickness = Empty
    /\ bearing_thickness_var = Empty /\ bearing_od_var = Empty
    /\ part_number_shaft_var = Empty
    /\ roller_base_bearing_thickness_var = Empty /\ roller_base_bearing_od_var = Empty
    /\ part_number_roller_base_var = Empty /\ cycloidal_disc_id_var = Empty
    /\ hole_drive_roller_var = Empty /\ hole_cycloidal_pin_var = Empty
    /\ eccentricity_var = Empty

Blank ==
    /\ phase = "boot"
    /\ bearings_list = <<>>
    /\ BlankForm
    /\ last = "none"
    /\ FindIdle

Init == Blank /\ csv_file \in SampleFiles

Next ==
    \/ Startup
    \/ Type_shaft_diameter
    \/ Type_roller_base_diameter
    \/ Type_num_drive_rollers
    \/ Type_drive_roller_diameter
    \/ Type_drive_roller_base_thickness
    \/ Type_ring_pin_diameter
    \/ Type_cycloidal_pin_diameter
    \/ Type_cycloidal_pin_height
    \/ Type_tolerance
    \/ Type_cycloidal_disc_thickness
    \/ calculate_cycloidal_params

Spec == Init /\ [][Next]_vars

\* ------------------------------------------------------------------------
\* The full calculation alone: one press of the button on a form as the
\* user may have left it
\* ------------------------------------------------------------------------

\* The StringVars after the shaft diameter matched RowB1 (and nothing
\* matched since), or as they start.
AfterShaftMatch(matched) ==
    LET d == IF matched
             THEN ShaftDerivation(Bearing(RowB1), <<>>)
             ELSE [bearing_thickness_var |-> Empty, bearing_od_var |-> Empty,
                   part_number_shaft_var |-> Empty, cycloidal_disc_id_var |-> Empty]
    IN  /\ bearing_thickness_var = d.bearing_thickness_var
        /\ bearing_od_var = d.bearing_od_var
        /\ part_number_shaft_var = d.part_number_shaft_var
        /\ cycloidal_disc_id_var = d.cycloidal_disc_id_var

\* The results of an earlier calculation (6.0, 0.05, 8.0, 6.0), or none.
AfterCalculation(done) ==
    /\ hole_drive_roller_var = IF done THEN <<"6", ".", "1", "5", "0">> ELSE Empty
    /\ hole_cycloidal_pin_var = IF done THEN <<"6", ".", "1", "5", "0">> ELSE Empty
    /\ eccentricity_var = IF done THEN <<"1", ".", "0", "0", "0">> ELSE Empty

\* The shaft diameter matched once, the form was filled and calculated or
\* not, and the entries were edited since; the two looked-up diameters now
\* hold texts that match nothing.
InitCalc ==
    /\ phase = "running"
    /\ csv_file = File(<<RowB1, RowB2>>)
    /\ bearings_list = load_bearings(csv_file).value
    /\ entry_shaft_diameter \in {Empty, Txt_11}
    /\ entry_roller_base_diameter \in {Empty, Txt_11}
    /\ entry_num_drive_rollers \in {Empty, Txt_8, Txt_8_5}
    /\ entry_drive_roller_diameter \in {Empty, Txt_6_0, Txt_5, Txt_inf}
    /\ entry_drive_roller_base_thickness \in ValueTexts
    /\ entry_ring_pin_diameter \in {Empty, Txt_8_0, Txt_nan}
    /\ entry_cycloidal_pin_diameter \in {Empty, Txt_6_0, Txt_5}
    /\ entry_cycloidal_pin_height \in ValueTexts
    /\ entry_tolerance \in {Empty, Txt_0_05, Txt_0_0504}
    /\ entry_cycloidal_disc_thickness \in ValueTexts
    /\ \E matched \in BOOLEAN, done \in BOOLEAN :
          /\ done => matched
          /\ AfterShaftMatch(matched)
          /\ AfterCalculation(done)
    /\ roller_base_bearing_thickness_var = Empty
    /\ roller_base_bearing_od_var = Empty
    /\ part_number_roller_base_var = Empty
    /\ last = "edit"
    /\ FindIdle

SpecCalc == InitCalc /\ [][calculate_cycloidal_params]_vars

\* ------------------------------------------------------------------------
\* The catalog alone: every file of up to MaxRows rows, then the lookups
\* ------------------------------------------------------------------------

MaxRows == 2

Rows == {RowB1, RowB2, RowB3, RowBadID, RowBadOD, RowBadThickness}

Files == {NoFile} \cup {File(rows) : rows \in UNION {[1..n -> Rows] : n \in 0..MaxRows}}

InitLoad == Blank /\ csv_file \in Files

NextLoad ==
    \/ Startup
    \/ Type_shaft_diameter
    \/ Type_roller_base_diameter

SpecLoad == InitLoad /\ [][NextLoad]_vars

\* ------------------------------------------------------------------------
\* find_bearing_by_ID alone: one call on a list of up to MaxBearings
\* bearings, as load_bearings can return it
\* ------------------------------------------------------------------------

MaxBearings == 2

RowInf == Row(Txt_B4, Txt_inf, Txt_26, Txt_7)
RowNaN == Row(Txt_B4, Txt_nan, Txt_26, Txt_7)

SampleBearings == {Bearing(r) : r \in {RowB1, RowB2, RowB3, RowInf, RowNaN}}

Txt_10_0000003 == <<"1", "0", ".", "0", "0", "0", "0", "0", "0", "3">>
Txt_10_000002 == <<"1", "0", ".", "0", "0", "0", "0", "0", "2">>

SampleDiameters ==
    {ParseFloat(t) : t \in {Txt_10_0, Txt_10_0000003, Txt_10_0000005, Txt_10_000002,
                            Txt_11, Txt_12, Txt_inf, Txt_nan}}

\* The call has not returned yet.
Pending == [pending |-> TRUE]

InitFind ==
    /\ phase = "boot"
    /\ csv_file = NoFile
    /\ bearings_list = <<>>
    /\ BlankForm
    /\ last = "none"
    /\ bearings_data \in UNION {[1..n -> SampleBearings] : n \in 0..MaxBearings}
    /\ inner_diameter \in SampleDiameters
    /\ found_bearing = Pending

FindCall ==
    /\ found_bearing = Pending
    /\ found_bearing' = find_bearing_by_ID(bearings_data, inner_diameter)
    /\ UNCHANGED <<catalog, entries, outputs, last, bearings_data, inner_diameter>>

SpecFind == InitFind /\ [][FindCall]_vars

\* ------------------------------------------------------------------------
\* Properties
\* ------------------------------------------------------------------------

\* a and b are numbers that differ by less than 1e-6.
Within(a, b) ==
    /\ a.k = "fin" /\ b.k = "fin"
    /\ a.v - b.v < Tolerance /\ b.v - a.v < Tolerance

\* The first bearing of the list whose ID is within 1e-6 of x, or None.
FirstWithin(bearings, x) ==
    LET hits == {i \in 1..Len(bearings) : Within(bearings[i].ID, x)}
    IN  IF hits = {} THEN None
        ELSE bearings[CHOOSE i \in hits : \A j \in hits : i <= j]

\* The text is no number, or no bearing of the catalog is within 1e-6 of it.
Misses(text) == FirstWithin(bearings_list, float(text)) = None

AllEmpty(texts) == \A i \in 1..Len(texts) : texts[i] = Empty

Txt_6_150 == <<"6", ".", "1", "5", "0">>
Txt_1_000 == <<"1", ".", "0", "0", "0">>
Txt_28_0 == <<"2", "8", ".", "0">>

\* C1: a shaft-diameter edit whose text is no number, or matches no bearing
\* of the catalog within 1e-6, leaves every derived output as it was.
C1_ShaftMissKeepsOutputs ==
    [][(Type_shaft_diameter /\ Misses(entry_shaft_diameter')) => UNCHANGED outputs]_vars

\* The shaft entry holds 11, which matches nothing, and the values derived
\* from B1, from the roller base diameter and by the calculation are there.
C1_Witness ==
    /\ entry_shaft_diameter = Txt_11
    /\ bearing_thickness_var = Txt_6_0 /\ bearing_od_var = Txt_22_0
    /\ part_number_shaft_var = Txt_B1 /\ cycloidal_disc_id_var = Txt_22_0
    /\ roller_base_bearing_od_var = Txt_22_0
    /\ hole_drive_roller_var = Txt_6_150 /\ eccentricity_var = Txt_1_000

\* C2: when the shaft entry holds a number that a bearing of the catalog
\* matches, the shaft bearing's thickness, outer diameter and part number are
\* those of the first such bearing, and the disc's inner diameter is its
\* outer diameter.
C2_ShaftMatchDerives ==
    LET r == FirstWithin(bearings_list, float(entry_shaft_diameter))
    IN  r # None =>
            /\ bearing_thickness_var = PyStr(r.Thickness)
            /\ bearing_od_var = PyStr(r.OD)
            /\ part_number_shaft_var = r.PartNumber
            /\ cycloidal_disc_id_var = PyStr(r.OD)

\* Row B1 (ID 10.0, OD 22.0, Thickness 6.0) and the input "10.0".
C2_Witness ==
    /\ entry_shaft_diameter = Txt_10_0
    /\ bearings_list # <<>> /\ Head(bearings_list) = Bearing(RowB1)
    /\ bearing_thickness_var = Txt_6_0 /\ bearing_od_var = Txt_22_0
    /\ part_number_shaft_var = Txt_B1 /\ cycloidal_disc_id_var = Txt_22_0

\* One of the eleven fields of the full calculation is no number (no integer,
\* for the number of drive rollers).
AnyFieldUnparsable ==
    \/ ParseFloat(entry_shaft_diameter) = ValueError
    \/ ParseInt(entry_num_drive_rollers) = ValueError
    \/ ParseFloat(entry_drive_roller_diameter) = ValueError
    \/ ParseFloat(entry_drive_roller_base_thickness) = ValueError
    \/ ParseFloat(entry_roller_base_diameter) = ValueError
    \/ ParseFloat(entry_ring_pin_diameter) = ValueError
    \/ ParseFloat(entry_cycloidal_pin_diameter) = ValueError
    \/ ParseFloat(entry_cycloidal_pin_height) = ValueError
    \/ ParseFloat(entry_tolerance) = ValueError
    \/ ParseFloat(cycloidal_disc_id_var) = ValueError
    \/ ParseFloat(entry_cycloidal_disc_thickness) = ValueError

\* C3: a full calculation with any of the eleven fields unparsable changes
\* nothing (no output, no entry, not the catalog) and the program runs on.
C3_AllOrNothing ==
    [][(last' = "calc" /\ AnyFieldUnparsable) =>
            /\ UNCHANGED <<catalog, entries, outputs, find_call>>
            /\ phase' = "running"]_vars

\* The button was pressed with only the pin height (which no formula uses)
\* missing; the results of the earlier calculation are still there, although
\* the drive roller diameter is 5 by now.
C3_Witness ==
    /\ last = "calc"
    /\ entry_cycloidal_pin_height = Empty
    /\ entry_shaft_diameter = Txt_11 /\ entry_num_drive_rollers = Txt_8
    /\ entry_drive_roller_diameter = Txt_5 /\ entry_drive_roller_base_thickness = Txt_5
    /\ entry_roller_base_diameter = Txt_11 /\ entry_ring_pin_diameter = Txt_8_0
    /\ entry_cycloidal_pin_diameter = Txt_6_0 /\ entry_tolerance = Txt_0_05
    /\ cycloidal_disc_id_var = Txt_22_0 /\ entry_cycloidal_disc_thickness = Txt_5
    /\ hole_drive_roller_var = Txt_6_150 /\ eccentricity_var = Txt_1_000

\* The text is digits, a point and exactly three digits, with an optional
\* minus sign.
ThreeDecimals(t) ==
    LET u == IF t # <<>> /\ Head(t) = "-" THEN Tail(t) ELSE t
    IN  /\ Len(u) >= 5
        /\ u[Len(u) - 3] = "."
        /\ \A i \in 1..Len(u) : i # Len(u) - 3 => IsDigit(u[i])

\* C4: after a full calculation whose eleven fields all parse, the drive
\* roller hole diameter is the drive roller diameter + 0.2 - tolerance, the
\* cycloidal pin hole diameter is the cycloidal pin diameter + 0.2 -
\* tolerance and the eccentricity is (ring pin diameter - cycloidal pin
\* diameter) / 2, each stored with exactly three decimal places.
C4_ThreeDecimalResults ==
    (last = "calc" /\ ~AnyFieldUnparsable) =>
        LET d == ParseFloat(entry_drive_roller_diameter)
            r == ParseFloat(entry_ring_pin_diameter)
            c == ParseFloat(entry_cycloidal_pin_diameter)
            t == ParseFloat(entry_tolerance)
        IN  /\ hole_drive_roller_var = Fmt3(FSub(FAdd(d, Fin(Scale \div 5)), t))
            /\ hole_cycloidal_pin_var = Fmt3(FSub(FAdd(c, Fin(Scale \div 5)), t))
            /\ eccentricity_var = Fmt3(FHalf(FSub(r, c)))
            /\ ThreeDecimals(hole_drive_roller_var)
            /\ ThreeDecimals(hole_cycloidal_pin_var)
            /\ ThreeDecimals(eccentricity_var)

\* What holds of the results when the four numbers the formulas read are
\* finite: the three formulas, rounded to three decimals.
FiniteResults ==
    LET d == ParseFloat(entry_drive_roller_diameter)
        r == ParseFloat(entry_ring_pin_diameter)
        c == ParseFloat(entry_cycloidal_pin_diameter)
        t == ParseFloat(entry_tolerance)
    IN  (/\ last = "calc" /\ ~AnyFieldUnparsable
         /\ IsFinite(d) /\ IsFinite(r) /\ IsFinite(c) /\ IsFinite(t))
        => /\ hole_drive_roller_var = Fmt3(Fin(d.v + Scale \div 5 - t.v))
           /\ hole_cycloidal_pin_var = Fmt3(Fin(c.v + Scale \div 5 - t.v))
           /\ eccentricity_var = Fmt3(Fin((r.v - c.v) \div 2))
           /\ ThreeDecimals(hole_drive_roller_var)
           /\ ThreeDecimals(hole_cycloidal_pin_var)
           /\ ThreeDecimals(eccentricity_var)

\* Drive roller diameter 6.0 and tolerance 0.05 give 6.150; ring pin 8.0 and
\* cycloidal pin 6.0 give 1.000.
FiniteResultsExample ==
    /\ last = "calc"
    /\ entry_drive_roller_diameter = Txt_6_0 /\ entry_tolerance = Txt_0_05
    /\ entry_ring_pin_diameter = Txt_8_0 /\ entry_cycloidal_pin_diameter = Txt_6_0
    /\ hole_drive_roller_var = Txt_6_150 /\ eccentricity_var = Txt_1_000

\* C5: a call of find_bearing_by_ID returns the first bearing of the list
\* whose ID is within 1e-6 of the value, None exactly when there is none,
\* and, called with the ID of a bearing of the list, a bearing whose ID is
\* within 1e-6 of it.
C5_FindFirstWithin ==
    found_bearing # Pending =>
        /\ found_bearing = FirstWithin(bearings_data, inner_diameter)
        /\ \A i \in 1..Len(bearings_data) :
              bearings_data[i].ID = inner_diameter =>
                  /\ found_bearing # None
                  /\ Within(found_bearing.ID, inner_diameter)

\* What holds of every call: the result is the first bearing within 1e-6,
\* or None when there is none.
FindReturnsFirstWithin ==
    found_bearing # Pending => found_bearing = FirstWithin(bearings_data, inner_diameter)

\* C6: a roller-base-diameter edit whose text a bearing matches sets the
\* roller base bearing's thickness, outer diameter and part number from the
\* first such bearing; one that misses leaves them; either way nothing else
\* changes but the entry itself.
C6_RollerDerivesOnlyItsOwn ==
    [][Type_roller_base_diameter =>
          LET r == FirstWithin(bearings_list, float(entry_roller_base_diameter'))
          IN  /\ UNCHANGED <<catalog, entry_shaft_diameter, plain_entries,
                             shaft_outputs, calc_outputs>>
              /\ IF r # None
                 THEN /\ roller_base_bearing_thickness_var' = PyStr(r.Thickness)
                      /\ roller_base_bearing_od_var' = PyStr(r.OD)
                      /\ part_number_roller_base_var' = r.PartNumber
                 ELSE UNCHANGED roller_outputs]_vars

\* The roller base diameter matched B1 while the shaft fields and the disc's
\* inner diameter hold what B2 gave them.
C6_Witness ==
    /\ entry_roller_base_diameter = Txt_10_0
    /\ roller_base_bearing_thickness_var = Txt_6_0
    /\ roller_base_bearing_od_var = Txt_22_0
    /\ part_number_roller_base_var = Txt_B1
    /\ part_number_shaft_var = Txt_B2
    /\ bearing_od_var = Txt_28_0 /\ cycloidal_disc_id_var = Txt_28_0

\* C7: nothing is fatal: whatever fails, the program keeps running and
\* accepts further events.
C7_NothingIsFatal == last # "none" => phase = "running"

RowParses(row) ==
    /\ ParseFloat(row.ID) # ValueError
    /\ ParseFloat(row.OD) # ValueError
    /\ ParseFloat(row.Thickness) # ValueError

\* C8: if a row of the file has an ID, OD or Thickness that is no number, no
\* catalog exists (not even the rows before it) and no lookup ever derives
\* anything; if every row parses, the catalog is the rows in file order.
C8_StrictLoad ==
    LET rows == csv_file.rows
        bad == \E i \in 1..Len(rows) : ~RowParses(rows[i])
    IN  /\ bad => /\ phase # "running"
                  /\ bearings_list = <<>>
                  /\ AllEmpty(shaft_outputs) /\ AllEmpty(roller_outputs)
        /\ (~bad /\ last # "none") =>
                  /\ phase = "running"
                  /\ Len(bearings_list) = Len(rows)
                  /\ \A i \in 1..Len(rows) :
                        bearings_list[i] = [PartNumber |-> rows[i].PartNumber,
                                            ID |-> ParseFloat(rows[i].ID),
                                            OD |-> ParseFloat(rows[i].OD),
                                            Thickness |-> ParseFloat(rows[i].Thickness)]

\* The load of a file whose first row is good and whose second is not.
C8_Witness ==
    /\ csv_file = File(<<RowB1, RowBadOD>>)
    /\ last = "startup"
    /\ phase = "crashed"

\* C9: with no bearing.csv the program starts with an empty catalog, and
\* no edit of the shaft or roller base diameter derives anything.
C9_MissingFileIsEmptyCatalog ==
    (~csv_file.exists /\ last # "none") =>
        /\ phase = "running"
        /\ bearings_list = <<>>
        /\ AllEmpty(shaft_outputs) /\ AllEmpty(roller_outputs) /\ AllEmpty(calc_outputs)

\* No file, and both looked-up entries hold a number.
C9_Witness ==
    /\ ~csv_file.exists
    /\ entry_shaft_diameter = Txt_10_0
    /\ entry_roller_base_diameter = Txt_11
    /\ last = "calc"

\* C10: the disc's inner diameter starts empty and only a matching shaft
\* edit writes it; while it is empty (so always with an empty catalog) no
\* step changes the three computed outputs; once it is set, a full
\* calculation whose other ten fields parse sets the three outputs, whatever
\* the shaft entry now matches.
C10_CalculationNeedsShaftMatch ==
    [][/\ last = "none" => cycloidal_disc_id_var = Empty
       /\ cycloidal_disc_id_var' # cycloidal_disc_id_var =>
              Type_shaft_diameter /\ ~Misses(entry_shaft_diameter')
       /\ bearings_list = <<>> => cycloidal_disc_id_var = Empty
       /\ cycloidal_disc_id_var = Empty => UNCHANGED calc_outputs
       /\ (/\ last' = "calc"
           /\ cycloidal_disc_id_var # Empty
           /\ ParseFloat(entry_shaft_diameter) # ValueError
           /\ ParseInt(entry_num_drive_rollers) # ValueError
           /\ ParseFloat(entry_drive_roller_diameter) # ValueError
           /\ ParseFloat(entry_drive_roller_base_thickness) # ValueError
           /\ ParseFloat(entry_roller_base_diameter) # ValueError
           /\ ParseFloat(entry_ring_pin_diameter) # ValueError
           /\ ParseFloat(entry_cycloidal_pin_diameter) # ValueError
           /\ ParseFloat(entry_cycloidal_pin_height) # ValueError
           /\ ParseFloat(entry_tolerance) # ValueError
           /\ ParseFloat(entry_cycloidal_disc_thickness) # ValueError)
          => /\ hole_drive_roller_var' =
                    Fmt3(HoleDiameter(ParseFloat(entry_drive_roller_diameter),
                                      ParseFloat(entry_tolerance)))
             /\ hole_cycloidal_pin_var' =
                    Fmt3(HoleDiameter(ParseFloat(entry_cycloidal_pin_diameter),
                                      ParseFloat(entry_tolerance)))
             /\ eccentricity_var' =
                    Fmt3(Eccentricity(ParseFloat(entry_ring_pin_diameter),
                                      ParseFloat(entry_cycloidal_pin_diameter)))]_vars

\* The calculation has just produced its results while the shaft entry holds
\* 11, which matches no bearing.
C10_Witness ==
    /\ last = "calc"
    /\ entry_shaft_diameter = Txt_11
    /\ cycloidal_disc_id_var = Txt_22_0
    /\ hole_drive_roller_var = Txt_6_150
    /\ hole_cycloidal_pin_var = Txt_6_150
    /\ eccentricity_var = Txt_1_000

=============================================================================
